---- MODULE Spec2Model ----
(***************************************************************************)
(* The inline parser of jotdown (src/src/inline.rs) as a state machine.    *)
(*                                                                         *)
(* The parser pulls tokens from a lexer over the characters of the input,  *)
(* buffers events, rewrites buffered events when a later token decides     *)
(* what an earlier one was, and releases events from the front of the      *)
(* buffer.  The lexer (lex.rs), the attribute validator (attr.rs) and the  *)
(* span type (span.rs) are not part of the source at hand; they are        *)
(* modelled from their description in spec.md, sections 3, 4.1 and 4.2.    *)
(*                                                                         *)
(* Offsets are 0-based as in the source.  A character is a short           *)
(* string; the input is a sequence of characters.  Spans count bytes, the  *)
(* character iterators count characters.                                   *)
(***************************************************************************)
EXTENDS Integers, Sequences, FiniteSets, TLC

VARIABLES
    src,              \* the input, a sequence of characters
    lexer,            \* Parser.lexer
    span,             \* Parser.span
    openers,          \* Parser.openers
    events,           \* Parser.events
    released,         \* the events next() has returned so far, in order
    pc,               \* "loop": inside or between calls of next();
                      \* "done": next() has returned None;
                      \* "assert_eq": the assertion of the merge failed;
                      \* "overflow": an overflow check failed
    overflow_checks,  \* the build: "on" (debug), "off" (release), or
                      \* "unknown" while no arithmetic has overflowed yet
    origin,           \* where the input comes from: an input of its own, or
                      \* the text of a Str an earlier parser released
    eaten             \* how many tokens eat() has taken from the lexer

vars ==
    <<src, lexer, span, openers, events, released, pc, overflow_checks, origin,
      eaten>>

-----------------------------------------------------------------------------
(* Characters.                                                             *)

EOF == "EOF"

\* The backtick character (U+0060; written by its code point).
Backtick == "U+0060"

\* A character of two bytes in UTF-8 that is no whitespace and no punctuation.
EAcute == "U+00E9"

\* The non-breaking space, two bytes in UTF-8.
NBSP == "U+00A0"

len_utf8(c) == IF c \in {EAcute, NBSP} THEN 2 ELSE 1

is_whitespace(c) == c \in {" ", "\t", "\n", NBSP}

is_ascii_punctuation(c) ==
    c \in {"!", "\"", "#", "$", "%", "&", "'", "(", ")", "*", "+", ",", "-",
           ".", "/", ":", ";", "<", "=", ">", "?", "@", "[", "\\", "]", "^",
           "_", Backtick, "{", "|", "}", "~"}

\* The character at 0-based index i of the input.
CharAt(i) == IF i < Len(src) THEN src[i + 1] ELSE EOF

\* The number of bytes of the n characters from index i on.
RECURSIVE ByteLen(_, _)
ByteLen(i, n) ==
    IF n = 0 \/ i >= Len(src) THEN 0
    ELSE len_utf8(src[i + 1]) + ByteLen(i + 1, n - 1)

\* How many characters from index i on lie in S, up to the first that does not.
RECURSIVE CountWhile(_, _)
CountWhile(i, S) ==
    IF i < Len(src) /\ src[i + 1] \in S THEN 1 + CountWhile(i + 1, S) ELSE 0

\* How many characters from index i on lie outside S, up to the first in S.
RECURSIVE CountUntil(_, _)
CountUntil(i, S) ==
    IF i < Len(src) /\ src[i + 1] \notin S THEN 1 + CountUntil(i + 1, S) ELSE 0

\* Where an iterator at i stands after take_while counted n characters: the
\* character that ended the count is consumed as well.
AfterTakeWhile(i, n) == IF i + n < Len(src) THEN i + n + 1 ELSE i + n

-----------------------------------------------------------------------------
(* Span: a half-open byte range.                                           *)

Span_new(s, e) == [start |-> s, end |-> e]

empty_at(p) == Span_new(p, p)

by_len(s, n) == Span_new(s, s + n)

extend(sp, n) == Span_new(sp.start, sp.end + n)

translate(sp, n) == Span_new(sp.start + n, sp.end + n)

union(a, b) ==
    Span_new(IF a.start <= b.start THEN a.start ELSE b.start,
             IF a.end >= b.end THEN a.end ELSE b.end)

with_start(sp, p) == Span_new(p, sp.end)

with_end(sp, p) == Span_new(sp.start, p)

-----------------------------------------------------------------------------
(* Lexer: characters to tokens.                                            *)

NoToken == [kind |-> "None", n |-> 0, len |-> 0]

\* The characters that end a run of text.
Special ==
    {"\\", "\n", " ", "\t", NBSP, Backtick, "$", ".", "-", "*", "_", "^", "~", "=",
     "+", "'", "\"", "<", "!", "[", "]", "(", ")", "{", "}"}

\* The brace-prefixed delimiters: second character to delimiter name.
BraceDelimiter(c) ==
    CASE c = "*" -> "BraceAsterisk"
      [] c = "_" -> "BraceUnderscore"
      [] c = "^" -> "BraceCaret"
      [] c = "~" -> "BraceTilde"
      [] c = "=" -> "BraceEqual"
      [] c = "-" -> "BraceHyphen"
      [] c = "+" -> "BracePlus"
      [] OTHER -> "Brace"

\* The token that starts at character index i (NoToken at the end of input).
token(i) ==
    LET c == CharAt(i)
        d == CharAt(i + 1)
        tok(k, n) == [kind |-> k, n |-> n, len |-> ByteLen(i, n)]
        closes == d = "}"
    IN  CASE i >= Len(src) -> NoToken
          [] c = "\n" -> tok("Newline", 1)
          [] c = "\\" ->
                IF d = " " /\ CharAt(i + 2) = "\n" THEN tok("Hardbreak", 3)
                ELSE IF d = "\n" \/ is_ascii_punctuation(d) THEN tok("Escape", 2)
                ELSE tok("Text", 1 + CountUntil(i + 1, Special))
          [] c \in {" ", "\t"} -> tok("Whitespace", CountWhile(i, {" ", "\t"}))
          [] c = NBSP -> tok("Nbsp", 1)
          [] c = Backtick -> tok("Seq(Backtick)", CountWhile(i, {Backtick}))
          [] c = "$" -> tok("Seq(Dollar)", CountWhile(i, {"$"}))
          [] c = "." -> tok("Seq(Period)", CountWhile(i, {"."}))
          [] c = "-" ->
                IF closes THEN tok("Close(BraceHyphen)", 2)
                ELSE tok("Seq(Hyphen)", CountWhile(i, {"-"}))
          [] c = "*" ->
                IF closes THEN tok("Close(BraceAsterisk)", 2)
                ELSE tok("Sym(Asterisk)", 1)
          [] c = "_" ->
                IF closes THEN tok("Close(BraceUnderscore)", 2)
                ELSE tok("Sym(Underscore)", 1)
          [] c = "^" ->
                IF closes THEN tok("Close(BraceCaret)", 2)
                ELSE tok("Sym(Caret)", 1)
          [] c = "~" ->
                IF closes THEN tok("Close(BraceTilde)", 2)
                ELSE tok("Sym(Tilde)", 1)
          [] c = "=" ->
                IF closes THEN tok("Close(BraceEqual)", 2)
                ELSE tok("Text", 1 + CountUntil(i + 1, Special))
          [] c = "+" ->
                IF closes THEN tok("Close(BracePlus)", 2)
                ELSE tok("Text", 1 + CountUntil(i + 1, Special))
          [] c = "'" -> tok("Sym(Quote1)", 1)
          [] c = "\"" -> tok("Sym(Quote2)", 1)
          [] c = "<" -> tok("Sym(Lt)", 1)
          [] c = "!" ->
                IF d = "[" THEN tok("Sym(ExclaimBracket)", 2)
                ELSE tok("Text", 1 + CountUntil(i + 1, Special))
          [] c = "[" -> tok("Open(Bracket)", 1)
          [] c = "]" -> tok("Close(Bracket)", 1)
          [] c = "(" -> tok("Open(Paren)", 1)
          [] c = ")" -> tok("Close(Paren)", 1)
          [] c = "{" ->
                IF BraceDelimiter(d) = "Brace" THEN tok("Open(Brace)", 1)
                ELSE [kind |-> "Open(" \o BraceDelimiter(d) \o ")", n |-> 2,
                      len |-> ByteLen(i, 2)]
          [] c = "}" -> tok("Close(Brace)", 1)
          [] OTHER -> tok("Text", 1 + CountUntil(i + 1, Special))

\* A lexer over the characters from index i on: chars is where its character
\* iterator stands, next is the token it has peeked and not yet handed out.
Lexer_new(i) == [chars |-> i, next |-> NoToken]

\* Lexer::peek: the lexer after peeking (its next field holds the token).
Lexer_peek(lx) ==
    LET Peeked(t) == [chars |-> lx.chars + t.n, next |-> t]
    IN  IF lx.next # NoToken THEN lx ELSE Peeked(token(lx.chars))

\* Lexer::next: the token handed out and the lexer after it.
Lexer_next(lx) ==
    LET Taken(p) ==
            [tok |-> p.next, lexer |-> [chars |-> p.chars, next |-> NoToken]]
    IN  Taken(Lexer_peek(lx))

\* Lexer::inner: the character iterator of the lexer.
Lexer_inner(lx) == lx.chars

-----------------------------------------------------------------------------
(* Attribute validator.                                                    *)

\* The characters of a class, an identifier, a key or a value.
is_name(c) == c # EOF /\ ~is_whitespace(c) /\ ~is_ascii_punctuation(c)

\* One step of the validator: the state after reading character c.
attr_step(st, c) ==
    CASE st = "Start" -> IF c = "{" THEN "Whitespace" ELSE "Invalid"
      [] st = "Whitespace" ->
            CASE c = "}" -> "Done"
              [] c = "." -> "ClassFirst"
              [] c = "#" -> "IdentifierFirst"
              [] c = "%" -> "Comment"
              [] is_name(c) -> "Key"
              [] is_whitespace(c) -> "Whitespace"
              [] OTHER -> "Invalid"
      [] st = "Comment" -> IF c = "%" THEN "Whitespace" ELSE "Comment"
      [] st \in {"ClassFirst", "IdentifierFirst", "ValueFirst"} ->
            IF is_name(c)
            THEN CASE st = "ClassFirst" -> "Class"
                   [] st = "IdentifierFirst" -> "Identifier"
                   [] OTHER -> "Value"
            ELSE "Invalid"
      [] st \in {"Class", "Identifier", "Value"} ->
            CASE is_name(c) -> st
              [] is_whitespace(c) -> "Whitespace"
              [] c = "}" -> "Done"
              [] OTHER -> "Invalid"
      [] st = "Key" ->
            CASE is_name(c) -> "Key"
              [] c = "=" -> "ValueFirst"
              [] OTHER -> "Invalid"
      [] OTHER -> "Invalid"

\* The validator run over the characters from index i on, in state st, having
\* read n characters of len bytes, has_attr telling whether an attribute was
\* seen.  The result: len, the bytes of the block (0: not an attribute block),
\* non_empty, and n, the characters taken from the iterator.
RECURSIVE attr_run(_, _, _, _, _)
attr_run(i, st, n, len, has_attr) ==
    CASE st = "Done" -> [len |-> len, non_empty |-> has_attr, n |-> n]
      [] st = "Invalid" \/ i >= Len(src) ->
            [len |-> 0, non_empty |-> FALSE, n |-> n]
      [] OTHER ->
            attr_run(i + 1, attr_step(st, src[i + 1]), n + 1,
                     len + len_utf8(src[i + 1]),
                     has_attr \/ st \in {"Class", "Identifier", "Value"})

\* attr::valid on the character iterator at index i.
valid(i) == attr_run(i, "Start", 0, 0, FALSE)

\* attr::valid on a "{" followed by the character iterator at index i.
valid_after_brace(i) == attr_run(i, "Whitespace", 0, 1, FALSE)

-----------------------------------------------------------------------------
(* Events and the parser's state.                                          *)

\* An event: kind is Enter, Exit, Atom, Str, Whitespace, Attributes or
\* Placeholder; of is the container of an Enter or Exit, the atom of an Atom.
Event(kind, of, sp) == [kind |-> kind, of |-> of, span |-> sp]

\* Option<Event>::None.
NoEvent == Event("None", "", empty_at(0))

\* The element at 0-based index i of a sequence, and the sequence with it set.
At(s, i) == s[i + 1]

SetAt(s, i, v) == [s EXCEPT ![i + 1] = v]

\* The parser's fields as one value, and with them the number of tokens
\* eat() takes from the lexer, which the parser does not keep.
Parser(lx, sp, ops, evs) ==
    [lexer |-> lx, span |-> sp, openers |-> ops, events |-> evs, eaten |-> 0]

\* What a parse path gives: the event (NoEvent: the path does not apply), the
\* parser after it, whether an unsigned subtraction overflowed on the way, and
\* whether the path panicked.
Result(ev, p) == [ev |-> ev, p |-> p, overflow |-> FALSE, panic |-> FALSE]

\* eat that leaves the span as it is.
eat_without_span(p) ==
    LET Eaten(r) ==
            [tok |-> r.tok,
             p |-> [p EXCEPT !.lexer = r.lexer,
                             !.eaten = IF r.tok # NoToken THEN @ + 1 ELSE @]]
    IN  Eaten(Lexer_next(p.lexer))

eat(p) ==
    LET Eaten(r) ==
            [tok |-> r.tok,
             p |-> [p EXCEPT !.lexer = r.lexer,
                             !.span = IF r.tok # NoToken
                                      THEN extend(p.span, r.tok.len)
                                      ELSE p.span,
                             !.eaten = IF r.tok # NoToken THEN @ + 1 ELSE @]]
    IN  Eaten(Lexer_next(p.lexer))

peek(p) == Lexer_peek(p.lexer).next

\* reset_span that empties the span at its start, not at its end.
reset_span_at_start(p) == [p EXCEPT !.span = empty_at(p.span.start)]

reset_span(p) == [p EXCEPT !.span = empty_at(p.span.end)]

\* events.push_back(ev)
push_back(p, ev) == [p EXCEPT !.events = Append(p.events, ev)]

-----------------------------------------------------------------------------
(* Verbatim and math.                                                      *)

\* The characters char::is_whitespace accepts.
WhitespaceChars == {" ", "\t", "\n", NBSP}

\* verbatim_opener that takes every run of one or two dollars for the opener
\* of inline math.
verbatim_opener_inline(p, first) ==
    CASE first.kind = "Seq(Dollar)" ->
            IF first.len <= 2
            THEN LET Peeked(peeked) ==
                         IF peek(peeked).kind = "Seq(Backtick)"
                         THEN [kind |-> "InlineMath",
                               opener_len |-> peek(peeked).len,
                               p |-> eat(peeked).p]
                         ELSE [kind |-> "None", opener_len |-> 0,
                               p |-> peeked]
                 IN  Peeked([p EXCEPT !.lexer = Lexer_peek(p.lexer)])
            ELSE [kind |-> "None", opener_len |-> 0, p |-> p]
      [] first.kind = "Seq(Backtick)" ->
            [kind |-> "Verbatim", opener_len |-> first.len, p |-> p]
      [] OTHER -> [kind |-> "None", opener_len |-> 0, p |-> p]

\* The kind and the opener length of a verbatim or math opener, and the
\* parser after reading it; kind "None" when the token opens neither.
verbatim_opener(p, first) ==
    CASE first.kind = "Seq(Dollar)" ->
            IF first.len <= 2
            THEN LET Peeked(peeked) ==
                         IF peek(peeked).kind = "Seq(Backtick)"
                         THEN [kind |-> IF first.len = 2 THEN "DisplayMath"
                                        ELSE "InlineMath",
                               opener_len |-> peek(peeked).len,
                               p |-> eat(peeked).p]
                         ELSE [kind |-> "None", opener_len |-> 0,
                               p |-> peeked]
                 IN  Peeked([p EXCEPT !.lexer = Lexer_peek(p.lexer)])
            ELSE [kind |-> "None", opener_len |-> 0, p |-> p]
      [] first.kind = "Seq(Backtick)" ->
            [kind |-> "Verbatim", opener_len |-> first.len, p |-> p]
      [] OTHER -> [kind |-> "None", opener_len |-> 0, p |-> p]

\* Option<(Kind, usize)>::None for the first and last non-whitespace token.
NoPos == [kind |-> "None", pos |-> 0]

\* Option<Span>::None.
NoSpan == [start |-> -1, end |-> -1]

\* raw_format that promotes only a verbatim opened by one backtick.
raw_format_single(st, p) ==
    LET Scanned(lx, ahead, len) ==
            LET end == CharAt(ahead + len) = "}"
                span_format == by_len(p.span.end + 2, len)
            IN  IF lx.next.kind = "Open(BraceEqual)" /\ len > 0 /\ end
                   /\ st.opener_len = 1
                THEN [st EXCEPT
                        !.kind = "RawFormat",
                        !.span_outer = span_format,
                        !.p = [p EXCEPT
                                 !.lexer = Lexer_new(AfterTakeWhile(ahead, len)),
                                 !.span = translate(span_format, 1),
                                 !.events =
                                     SetAt(p.events, st.opener_event,
                                           Event("Enter", "RawFormat",
                                                 span_format))]]
                ELSE [st EXCEPT !.p = [p EXCEPT !.lexer = lx]]
        Peeked(lx) ==
            Scanned(lx, Lexer_inner(lx),
                    CountUntil(Lexer_inner(lx),
                               {"{", "}"} \cup WhitespaceChars))
    IN  IF st.kind = "Verbatim"
        THEN Peeked(Lexer_peek(p.lexer))
        ELSE [st EXCEPT !.p = p]

\* raw_format that keeps the lexer behind the scanned characters when the
\* scan fails.
raw_format_scanned(st, p) ==
    LET Scanned(lx, ahead, len) ==
            LET end == CharAt(ahead + len) = "}"
                span_format == by_len(p.span.end + 2, len)
            IN  IF lx.next.kind = "Open(BraceEqual)" /\ len > 0 /\ end
                THEN [st EXCEPT
                        !.kind = "RawFormat",
                        !.span_outer = span_format,
                        !.p = [p EXCEPT
                                 !.lexer = Lexer_new(AfterTakeWhile(ahead, len)),
                                 !.span = translate(span_format, 1),
                                 !.events =
                                     SetAt(p.events, st.opener_event,
                                           Event("Enter", "RawFormat",
                                                 span_format))]]
                ELSE IF lx.next.kind = "Open(BraceEqual)"
                THEN [st EXCEPT
                        !.p = [p EXCEPT
                                 !.lexer = Lexer_new(AfterTakeWhile(ahead, len))]]
                ELSE [st EXCEPT !.p = [p EXCEPT !.lexer = lx]]
        Peeked(lx) ==
            Scanned(lx, Lexer_inner(lx),
                    CountUntil(Lexer_inner(lx),
                               {"{", "}"} \cup WhitespaceChars))
    IN  IF st.kind = "Verbatim"
        THEN Peeked(Lexer_peek(p.lexer))
        ELSE [st EXCEPT !.p = p]

\* The closing backtick run t has been read (the parser is p): the promotion
\* to a raw format when "{=", a tag and "}" follow a Verbatim.
raw_format(st, p) ==
    LET Scanned(lx, ahead, len) ==
            LET end == CharAt(ahead + len) = "}"
                span_format == by_len(p.span.end + 2, len)
            IN  IF lx.next.kind = "Open(BraceEqual)" /\ len > 0 /\ end
                THEN [st EXCEPT
                        !.kind = "RawFormat",
                        !.span_outer = span_format,
                        !.p = [p EXCEPT
                                 !.lexer = Lexer_new(AfterTakeWhile(ahead, len)),
                                 !.span = translate(span_format, 1),
                                 !.events =
                                     SetAt(p.events, st.opener_event,
                                           Event("Enter", "RawFormat",
                                                 span_format))]]
                ELSE [st EXCEPT !.p = [p EXCEPT !.lexer = lx]]
        Peeked(lx) ==
            Scanned(lx, Lexer_inner(lx),
                    CountUntil(Lexer_inner(lx),
                               {"{", "}"} \cup WhitespaceChars))
    IN  IF st.kind = "Verbatim"
        THEN Peeked(Lexer_peek(p.lexer))
        ELSE [st EXCEPT !.p = p]

\* verbatim_loop that takes a backtick run of any length for the closing run.
RECURSIVE verbatim_loop_any_run(_)
verbatim_loop_any_run(st) ==
    LET Eaten(t, p) ==
            IF t = NoToken THEN [st EXCEPT !.p = p]
            ELSE IF t.kind = "Seq(Backtick)"
            THEN raw_format(st, p)
            ELSE verbatim_loop_any_run(
                    [st EXCEPT
                       !.p = reset_span(p),
                       !.span_inner = extend(st.span_inner, t.len),
                       !.non_whitespace_first =
                           IF t.kind # "Whitespace" /\ @ = NoPos
                           THEN [kind |-> t.kind, pos |-> st.span_inner.end]
                           ELSE @,
                       !.non_whitespace_last =
                           IF t.kind # "Whitespace"
                           THEN [kind |-> t.kind,
                                 pos |-> st.span_inner.end + t.len]
                           ELSE @])
        Step(e) == Eaten(e.tok, e.p)
    IN  Step(eat(st.p))

\* The loop of parse_verbatim over the tokens after the opener.
RECURSIVE verbatim_loop(_)
verbatim_loop(st) ==
    LET Eaten(t, p) ==
            IF t = NoToken THEN [st EXCEPT !.p = p]
            ELSE IF t.kind = "Seq(Backtick)" /\ t.len = st.opener_len
            THEN raw_format(st, p)
            ELSE verbatim_loop(
                    [st EXCEPT
                       !.p = reset_span(p),
                       !.span_inner = extend(st.span_inner, t.len),
                       !.non_whitespace_first =
                           IF t.kind # "Whitespace" /\ @ = NoPos
                           THEN [kind |-> t.kind, pos |-> st.span_inner.end]
                           ELSE @,
                       !.non_whitespace_last =
                           IF t.kind # "Whitespace"
                           THEN [kind |-> t.kind,
                                 pos |-> st.span_inner.end + t.len]
                           ELSE @])
        Step(e) == Eaten(e.tok, e.p)
    IN  Step(eat(st.p))

\* parse_verbatim that trims the whitespace before and behind any token.
parse_verbatim_trim_all(p, first) ==
    LET Trimmed(st, span_inner) ==
            Result(Event("Exit", st.kind,
                         IF st.span_outer # NoSpan THEN st.span_outer
                         ELSE st.p.span),
                   push_back(st.p, Event("Str", "", span_inner)))
        TrimEnd(st, trim_start) ==
            Trimmed(st, IF st.non_whitespace_last # NoPos
                        THEN with_end(trim_start, st.non_whitespace_last.pos)
                        ELSE trim_start)
        Closed(st) ==
            TrimEnd(st, IF st.non_whitespace_first # NoPos
                        THEN with_start(st.span_inner,
                                        st.non_whitespace_first.pos)
                        ELSE st.span_inner)
        Opened(o) ==
            IF o.kind = "None" THEN Result(NoEvent, o.p)
            ELSE Closed(verbatim_loop(
                    [p |-> push_back(o.p, Event("Enter", o.kind, o.p.span)),
                     kind |-> o.kind, opener_len |-> o.opener_len,
                     opener_event |-> Len(o.p.events),
                     span_inner |-> empty_at(o.p.span.end),
                     span_outer |-> NoSpan,
                     non_whitespace_first |-> NoPos,
                     non_whitespace_last |-> NoPos]))
    IN  Opened(verbatim_opener(p, first))

parse_verbatim(p, first) ==
    LET Trimmed(st, span_inner) ==
            Result(Event("Exit", st.kind,
                         IF st.span_outer # NoSpan THEN st.span_outer
                         ELSE st.p.span),
                   push_back(st.p, Event("Str", "", span_inner)))
        TrimEnd(st, trim_start) ==
            Trimmed(st, IF st.non_whitespace_last.kind = "Seq(Backtick)"
                        THEN with_end(trim_start, st.non_whitespace_last.pos)
                        ELSE trim_start)
        Closed(st) ==
            TrimEnd(st, IF st.non_whitespace_first.kind = "Seq(Backtick)"
                        THEN with_start(st.span_inner,
                                        st.non_whitespace_first.pos)
                        ELSE st.span_inner)
        Opened(o) ==
            IF o.kind = "None" THEN Result(NoEvent, o.p)
            ELSE Closed(verbatim_loop(
                    [p |-> push_back(o.p, Event("Enter", o.kind, o.p.span)),
                     kind |-> o.kind, opener_len |-> o.opener_len,
                     opener_event |-> Len(o.p.events),
                     span_inner |-> empty_at(o.p.span.end),
                     span_outer |-> NoSpan,
                     non_whitespace_first |-> NoPos,
                     non_whitespace_last |-> NoPos]))
    IN  Opened(verbatim_opener(p, first))

-----------------------------------------------------------------------------
(* Attributes.                                                             *)

\* Unsigned subtraction as a build without overflow checks computes it.  A
\* usize is held by an integer congruent to it modulo 2^64: a negative r
\* stands for 2^64 + r, so that adding it to an offset wraps as the machine
\* does, and "greater than zero" is "not zero".
wrapping_sub(a, b) == a - b

usize_positive(n) == n # 0

\* The loop over adjacent attribute blocks: the span grows by each block, the
\* lexer is rebuilt from the iterator after it, and the validator runs on.
RECURSIVE attr_loop(_, _, _, _, _)
attr_loop(sp, lx, ahead, attr_len, has_attr) ==
    LET Again(r) ==
            attr_loop(extend(sp, attr_len), Lexer_new(ahead), ahead + r.n,
                      r.len, has_attr \/ r.non_empty)
    IN  IF usize_positive(attr_len)
        THEN Again(valid(ahead))
        ELSE [span |-> sp, lexer |-> lx, has_attr |-> has_attr]

\* The 0-based index of the last element of s that satisfies Test, -1 if none.
RECURSIVE rposition(_, _, _)
rposition(s, Test(_), n) ==
    IF n = 0 THEN -1
    ELSE IF Test(s[n]) THEN n - 1
    ELSE rposition(s, Test, n - 1)

NotStr(e) == e.kind # "Str"

\* attributed_word that puts the Attributes after the Enter(Span).
attributes_after_enter(p) ==
    LET Word(i, span_str) ==
            Result(Event("Exit", "Span", empty_at(span_str.end)),
                   [p EXCEPT !.events =
                       SubSeq(p.events, 1, i)
                           \o <<Event("Enter", "Span",
                                      empty_at(span_str.start)),
                                Event("Attributes", "", p.span),
                                Event("Str", "", span_str)>>])
        From(i) ==
            Word(i, Span_new(At(p.events, i).span.start,
                             At(p.events, Len(p.events) - 1).span.end))
    IN  From(rposition(p.events, NotStr, Len(p.events)) + 1)

\* The events a word with attributes becomes: the buffered Str events of the
\* word are drained and Attributes, Enter(Span), Str follow; Exit(Span) is
\* the event of the token.
attributed_word(p) ==
    LET Word(i, span_str) ==
            Result(Event("Exit", "Span", empty_at(span_str.end)),
                   [p EXCEPT !.events =
                       SubSeq(p.events, 1, i)
                           \o <<Event("Attributes", "", p.span),
                                Event("Enter", "Span",
                                      empty_at(span_str.start)),
                                Event("Str", "", span_str)>>])
        From(i) ==
            Word(i, Span_new(At(p.events, i).span.start,
                             At(p.events, Len(p.events) - 1).span.end))
    IN  From(rposition(p.events, NotStr, Len(p.events)) + 1)

\* checks: whether the build checks arithmetic overflow (a debug build panics
\* where a release build wraps).
parse_attributes(p, first, checks) ==
    IF first.kind = "Open(Brace)" /\ p.events # <<>>
       /\ p.events[Len(p.events)].kind = "Str"
    THEN LET Looped(l, q, attr_len) ==
                 IF usize_positive(attr_len)
                 THEN IF l.has_attr THEN attributed_word(q)
                      ELSE Result(Event("Placeholder", "",
                                        empty_at(q.span.start)), q)
                 ELSE Result(NoEvent, p)
             Blocks(l, attr_len) ==
                 Looped(l, [p EXCEPT !.span = l.span, !.lexer = l.lexer],
                        attr_len)
             Validated(ahead, r) ==
                 IF r.len < 1 /\ checks
                 THEN [Result(NoEvent, p) EXCEPT
                          !.overflow = TRUE, !.panic = TRUE]
                 ELSE [Blocks(attr_loop(p.span, p.lexer, ahead + r.n,
                                        wrapping_sub(r.len, 1), r.non_empty),
                              wrapping_sub(r.len, 1))
                       EXCEPT !.overflow = r.len < 1]
         IN  Validated(Lexer_inner(p.lexer),
                       valid_after_brace(Lexer_inner(p.lexer)))
    ELSE Result(NoEvent, p)

-----------------------------------------------------------------------------
(* Autolink.                                                               *)

parse_autolink(p, first) ==
    IF first.kind = "Sym(Lt)"
    THEN LET Scanned(ahead, len) ==
                 LET end == CharAt(ahead + len) = ">"
                     is_url == \E k \in 0..(len - 1) :
                                  CharAt(ahead + k) \in {":", "@"}
                     span_str == by_len(p.span.end, len)
                     span_exit == by_len(p.span.end + len, 1)
                 IN  IF end /\ is_url
                     THEN Result(Event("Exit", "Autolink", span_exit),
                                 [p EXCEPT
                                    !.lexer =
                                        Lexer_new(AfterTakeWhile(ahead, len)),
                                    !.span = span_exit,
                                    !.events = p.events \o
                                        <<Event("Enter", "Autolink", p.span),
                                          Event("Str", "", span_str)>>])
                     ELSE Result(NoEvent, p)
         IN  Scanned(Lexer_inner(p.lexer),
                     CountUntil(Lexer_inner(p.lexer),
                                {">"} \cup WhitespaceChars))
    ELSE Result(NoEvent, p)

-----------------------------------------------------------------------------
(* Container delimiters.                                                   *)

\* Option<(Delim, Dir)>::None.
NoDelim == [delim |-> "None", dir |-> "None"]

\* Delim::from_token
from_token(kind) ==
    LET dd(delim, dir) == [delim |-> delim, dir |-> dir]
    IN  CASE kind = "Sym(Asterisk)" -> dd("Strong(Bi)", "Both")
          [] kind = "Sym(Underscore)" -> dd("Emphasis(Bi)", "Both")
          [] kind = "Sym(Caret)" -> dd("Superscript(Bi)", "Both")
          [] kind = "Sym(Tilde)" -> dd("Subscript(Bi)", "Both")
          [] kind = "Sym(Quote1)" -> dd("SingleQuoted", "Both")
          [] kind = "Sym(Quote2)" -> dd("DoubleQuoted", "Both")
          [] kind = "Sym(ExclaimBracket)" -> dd("Span(Image)", "Open")
          [] kind = "Open(Bracket)" -> dd("Span(General)", "Open")
          [] kind = "Close(Bracket)" -> dd("Span(General)", "Close")
          [] kind = "Open(BraceAsterisk)" -> dd("Strong(Uni)", "Open")
          [] kind = "Close(BraceAsterisk)" -> dd("Strong(Uni)", "Close")
          [] kind = "Open(BraceUnderscore)" -> dd("Emphasis(Uni)", "Open")
          [] kind = "Close(BraceUnderscore)" -> dd("Emphasis(Uni)", "Close")
          [] kind = "Open(BraceCaret)" -> dd("Superscript(Uni)", "Open")
          [] kind = "Close(BraceCaret)" -> dd("Superscript(Uni)", "Close")
          [] kind = "Open(BraceTilde)" -> dd("Subscript(Uni)", "Open")
          [] kind = "Close(BraceTilde)" -> dd("Subscript(Uni)", "Close")
          [] kind = "Open(BraceEqual)" -> dd("Mark", "Open")
          [] kind = "Close(BraceEqual)" -> dd("Mark", "Close")
          [] kind = "Open(BraceHyphen)" -> dd("Delete", "Open")
          [] kind = "Close(BraceHyphen)" -> dd("Delete", "Close")
          [] kind = "Open(BracePlus)" -> dd("Insert", "Open")
          [] kind = "Close(BracePlus)" -> dd("Insert", "Close")
          [] OTHER -> NoDelim

IsSpanDelim(d) == d \in {"Span(General)", "Span(Image)"}

\* Container::try_from(Delim): the container, or "Err" for a Span delimiter.
try_from(d) ==
    CASE IsSpanDelim(d) -> "Err"
      [] d \in {"Strong(Uni)", "Strong(Bi)"} -> "Strong"
      [] d \in {"Emphasis(Uni)", "Emphasis(Bi)"} -> "Emphasis"
      [] d \in {"Superscript(Uni)", "Superscript(Bi)"} -> "Superscript"
      [] d \in {"Subscript(Uni)", "Subscript(Bi)"} -> "Subscript"
      [] OTHER -> d

\* The link or image a "]" resolves to when "[tag]" or "(url)" follows it.
post_span(p, ty, opener_event) ==
    LET Scanned(ahead, opener, closer, len) ==
            LET img == ty = "Span(Image)"
                kind == IF opener = "["
                        THEN IF img THEN "ReferenceImage" ELSE "ReferenceLink"
                        ELSE IF img THEN "InlineImage" ELSE "InlineLink"
                end == CharAt(ahead + 1 + len) = closer
                sp == by_len(p.span.end + 1, len)
            IN  IF opener \in {"[", "("} /\ end
                THEN Result(Event("Exit", kind, sp),
                            [p EXCEPT
                               !.lexer =
                                   Lexer_new(AfterTakeWhile(ahead + 1, len)),
                               !.events = SetAt(p.events, opener_event,
                                                Event("Enter", kind, sp)),
                               !.span = translate(sp, 1)])
                ELSE Result(NoEvent, p)
        Opened(ahead, opener, closer) ==
            Scanned(ahead, opener, closer,
                    CountUntil(ahead + 1, {opener, closer}))
        Ahead(ahead, opener) ==
            Opened(ahead, opener, IF opener = "[" THEN "]" ELSE ")")
    IN  Ahead(Lexer_inner(p.lexer), CharAt(Lexer_inner(p.lexer)))

\* matching_opener that compares containers: the brace form and the bare
\* symbol of one container match each other.
RECURSIVE matching_opener_by_container(_, _, _)
matching_opener_by_container(ops, delim, n) ==
    IF n = 0 THEN -1
    ELSE IF try_from(ops[n].delim) = try_from(delim) THEN n - 1
    ELSE matching_opener_by_container(ops, delim, n - 1)

\* matching_opener that looks at the bottom of the stack only.
matching_opener_bottom(ops, delim, n) ==
    IF n > 0 /\ (ops[1].delim = delim
                 \/ (IsSpanDelim(ops[1].delim) /\ IsSpanDelim(delim)))
    THEN 0
    ELSE -1

\* The position of the opener a delimiter matches: the last (topmost) opener
\* of the same Delim, any Span opener for a Span delimiter; -1 if none.
RECURSIVE matching_opener(_, _, _)
matching_opener(ops, delim, n) ==
    IF n = 0 THEN -1
    ELSE IF ops[n].delim = delim \/ (IsSpanDelim(ops[n].delim) /\ IsSpanDelim(delim))
    THEN n - 1
    ELSE matching_opener(ops, delim, n - 1)

\* enter without its assignment: the opener's event stays a Str.
enter_forgotten(evs, e_opener, cont) == evs

\* self.events[e_opener].kind = EventKind::Enter(cont)
enter(evs, e_opener, cont) ==
    SetAt(evs, e_opener,
          [At(evs, e_opener) EXCEPT !.kind = "Enter", !.of = cont])

\* drain that pops the topmost opener only.
drain_top(ops, o) == SubSeq(ops, 1, Len(ops) - 1)

\* drain that removes the closed opener only and leaves those above it.
drain_one(ops, o) == SubSeq(ops, 1, o) \o SubSeq(ops, o + 2, Len(ops))

\* self.openers.drain(o..)
drain(ops, o) == SubSeq(ops, 1, o)

\* The closing of the opener at position o of the stack.
close_container(p, o) ==
    LET d == At(p.openers, o).delim
        e_attr == At(p.openers, o).event
        e_opener == At(p.openers, o).event + 1
        Looped(closed, p1, attr_len, l) ==
            LET span_closer == p1.span
                with_attr == IF l.has_attr
                             THEN SetAt(p1.events, e_attr,
                                        Event("Attributes", "", l.span))
                             ELSE p1.events
            IN  IF attr_len > 0
                THEN Result(IF closed.ev # NoEvent THEN closed.ev
                            ELSE IF l.has_attr
                            THEN Event("Exit", "Span", span_closer)
                            ELSE Event("Str", "", span_closer),
                            [p1 EXCEPT
                               !.span = l.span, !.lexer = l.lexer,
                               !.events =
                                   IF closed.ev = NoEvent /\ l.has_attr
                                   THEN enter(with_attr, e_opener, "Span")
                                   ELSE with_attr])
                ELSE Result(closed.ev, p1)
        Validated(closed, p1, ahead, r) ==
            Looped(closed, p1, r.len,
                   attr_loop(empty_at(p1.span.end), p1.lexer, ahead + r.n,
                             r.len, r.non_empty))
        Drained(closed, p1) ==
            Validated(closed, p1, Lexer_inner(p1.lexer),
                      valid(Lexer_inner(p1.lexer)))
        Closed(closed) ==
            Drained(closed, [closed.p EXCEPT !.openers = drain(p.openers, o)])
        Container(cont) ==
            Closed(IF cont # "Err"
                   THEN Result(Event("Exit", cont, p.span),
                               [p EXCEPT !.events =
                                   enter(p.events, e_opener, cont)])
                   ELSE post_span(p, d, e_opener))
    IN  Container(try_from(d))

\* open_container that pushes the record of the opener twice.
open_container_twice(p, delim) ==
    Result(Event("Str", "", p.span),
           [p EXCEPT
              !.openers = p.openers \o
                  <<[delim |-> delim, event |-> Len(p.events),
                     token |-> p.span],
                    [delim |-> delim, event |-> Len(p.events),
                     token |-> p.span]>>,
              !.events = Append(p.events,
                                Event("Placeholder", "",
                                      empty_at(p.span.start)))])

\* open_container that gives an Enter at once, before the container closes.
open_container_entered(p, delim) ==
    Result(Event("Enter", try_from(delim), p.span),
           [p EXCEPT
              !.openers = Append(p.openers,
                                 [delim |-> delim, event |-> Len(p.events),
                                  token |-> p.span]),
              !.events = Append(p.events,
                                Event("Placeholder", "",
                                      empty_at(p.span.start)))])

\* A new opener: a Placeholder for attributes that may follow the closing
\* delimiter, and the delimiter as a Str until it is closed.  The record
\* (Delim, usize) of the source is kept with one more field, token, the span
\* of the delimiter token: the parser never reads it, the properties do.
open_container(p, delim) ==
    Result(Event("Str", "", p.span),
           [p EXCEPT
              !.openers = Append(p.openers,
                                 [delim |-> delim, event |-> Len(p.events),
                                  token |-> p.span]),
              !.events = Append(p.events,
                                Event("Placeholder", "",
                                      empty_at(p.span.start)))])

parse_container(p, first) ==
    LET Closed(dd, closed) ==
            IF closed.ev # NoEvent THEN closed
            ELSE open_container(closed.p, dd.delim)
        Matched(dd, o) ==
            IF o # -1 /\ dd.dir \in {"Close", "Both"}
            THEN Closed(dd, close_container(p, o))
            ELSE open_container(p, dd.delim)
        Delimiter(dd) ==
            IF dd = NoDelim THEN Result(NoEvent, p)
            ELSE Matched(dd, matching_opener(p.openers, dd.delim,
                                             Len(p.openers)))
    IN  Delimiter(from_token(first.kind))

-----------------------------------------------------------------------------
(* Atoms, and one event per token.                                         *)

parse_atom(p, first) ==
    LET Atom(atom) ==
            IF atom = "None" THEN Result(NoEvent, p)
            ELSE Result(Event("Atom", atom, p.span), p)
    IN  Atom(CASE first.kind = "Newline" -> "Softbreak"
               [] first.kind = "Hardbreak" -> "Hardbreak"
               [] first.kind = "Escape" -> "Escape"
               [] first.kind = "Nbsp" -> "Nbsp"
               [] first.kind = "Seq(Period)" /\ first.len = 3 -> "Ellipsis"
               [] first.kind = "Seq(Hyphen)" /\ first.len = 2 -> "EnDash"
               [] first.kind = "Seq(Hyphen)" /\ first.len = 3 -> "EmDash"
               [] OTHER -> "None")

\* parse_event: the first token is eaten and the paths are tried in order,
\* each on the parser the paths before it left; the first that applies gives
\* the event, and a token no path applies to is text.
parse_event(p0, checks) ==
    LET Text(first, p) ==
            Result(Event(IF first.kind = "Whitespace" THEN "Whitespace"
                         ELSE "Str", "", p.span), p)
        Atom(first, atom) ==
            IF atom.ev # NoEvent THEN atom ELSE Text(first, atom.p)
        Container(first, container) ==
            IF container.ev # NoEvent THEN container
            ELSE Atom(first, parse_atom(container.p, first))
        Autolink(first, autolink) ==
            IF autolink.ev # NoEvent THEN autolink
            ELSE Container(first, parse_container(autolink.p, first))
        Attributes(first, attributes) ==
            IF attributes.ev # NoEvent \/ attributes.panic THEN attributes
            ELSE Autolink(first, parse_autolink(attributes.p, first))
        Verbatim(first, verbatim) ==
            IF verbatim.ev # NoEvent THEN verbatim
            ELSE Attributes(first,
                            parse_attributes(verbatim.p, first, checks))
        First(first, p) == Verbatim(first, parse_verbatim(p, first))
        Eaten(e) == First(e.tok, e.p)
    IN  Eaten(eat(reset_span(p0)))

-----------------------------------------------------------------------------
(* The inputs.                                                             *)

\* The longest input, in pieces of a vocabulary.
MaxPieces == 4

\* The texts of at most n pieces of the vocabulary V, each piece a sequence
\* of characters.
RECURSIVE Texts(_, _)
Texts(V, n) ==
    IF n = 0 THEN {<<>>}
    ELSE LET T == Texts(V, n - 1)
         IN  T \cup {t \o v : t \in T, v \in V}

\* Text and the delimiters of two containers, in the bare form and in the
\* brace forms that only open or only close.
ContainerPieces ==
    {<<"a">>, <<"_">>, <<"{", "*">>, <<"*", "}">>, <<"{", "_">>, <<"_", "}">>}

\* Words, whitespace, a delimiter, and attribute blocks: one without an
\* attribute, one with an attribute, and an unfinished one.
AttributePieces ==
    {<<"a">>, <<" ">>, <<"_">>, <<"{", "}">>, <<"{", ".", "a", "}">>, <<"{">>}

\* Brackets, link targets (also read as text) and an attribute block.
SpanPieces ==
    {<<"[">>, <<"!", "[">>, <<"]">>, <<"(", "a", ")">>, <<"[", "a", "]">>,
     <<"{", ".", "a", "}">>}

\* Backtick runs, dollars, a raw format, text and whitespace.
VerbatimPieces ==
    {<<"a">>, <<" ">>, <<Backtick>>, <<Backtick, Backtick>>, <<"$">>,
     <<"{", "=", "a", "}">>}

\* Autolinks.
AutolinkPieces == {<<"<">>, <<"a", ":">>, <<">">>, <<" ">>}

\* A link target, a raw format and an autolink with a character of two
\* bytes, and what they follow.
MultibytePieces ==
    {<<"a">>, <<"[", "a", "]">>, <<"(", EAcute, ")">>,
     <<Backtick, "a", Backtick>>, <<"{", "=", EAcute, "}">>,
     <<"<", EAcute, ":", ">">>}

\* A verbatim and what may follow it of a raw format: the opening "{=", a
\* tag, whitespace and the closing brace.
RawPieces ==
    {<<Backtick, "a", Backtick>>, <<"{", "=">>, <<"a">>, <<" ">>, <<"}">>}

\* A backtick and tokens that mean something outside a verbatim: a
\* delimiter, an autolink and a newline.
LiteralPieces ==
    {<<Backtick>>, <<"_">>, <<"<", "a", ":", ">">>, <<"\n">>}

\* A bracketed text and the pieces of a target with a backslash in it.
EscapePieces ==
    {<<"[", "a", "]">>, <<"(">>, <<"\\">>, <<")">>, <<"a">>}

Inputs ==
    Texts(ContainerPieces, MaxPieces) \cup Texts(AttributePieces, MaxPieces)
        \cup Texts(SpanPieces, MaxPieces) \cup Texts(VerbatimPieces, MaxPieces)
        \cup Texts(AutolinkPieces, MaxPieces)
        \cup Texts(MultibytePieces, MaxPieces)
        \cup Texts(RawPieces, MaxPieces)
        \cup Texts(LiteralPieces, MaxPieces)
        \cup Texts(EscapePieces, MaxPieces)

-----------------------------------------------------------------------------
(* Parser::next, in steps.                                                 *)

\* An input of its own, and the text of a released Str that lay within the
\* container c ("": within none) in the output for an input that was plain
\* or not.
WholeInput == [slice |-> FALSE, within |-> "", plain |-> FALSE]

SliceOfStr(c, plain) == [slice |-> TRUE, within |-> c, plain |-> plain]

\* Parser::new
Init ==
    /\ src \in Inputs
    /\ lexer = Lexer_new(0)
    /\ span = Span_new(0, 0)
    /\ openers = <<>>
    /\ events = <<>>
    /\ released = <<>>
    /\ pc = "loop"
    /\ overflow_checks = "unknown"
    /\ origin = WholeInput
    /\ eaten = 0

IsText(e) == e.kind \in {"Str", "Whitespace"}

\* MustParse that does not look at the opener stack.
MustParseTextOnly ==
    IF events = <<>> THEN TRUE
    ELSE IsText(events[Len(events)])

\* The condition of the loop of next(): more tokens are needed before the
\* front of the buffer may be released.
MustParse ==
    IF events = <<>> THEN TRUE
    ELSE IF openers # <<>> THEN TRUE
    ELSE IsText(events[Len(events)])

\* The lexer has no token left: parse_event gives None.
Exhausted == Lexer_next(lexer).tok = NoToken

\* One turn of the loop of next(): parse_event gives an event, which is
\* pushed to the back of the buffer.  Where an unsigned subtraction
\* overflows, a build with overflow checks panics and one without goes on
\* with the wrapped value; the build is the same for the whole run.
ParseEvent ==
    /\ pc = "loop"
    /\ MustParse
    /\ ~Exhausted
    /\ LET Push(r, checks) ==
               /\ lexer' = r.p.lexer
               /\ span' = r.p.span
               /\ openers' = r.p.openers
               /\ events' = IF r.panic THEN r.p.events
                            ELSE Append(r.p.events, r.ev)
               /\ pc' = IF r.panic THEN "overflow" ELSE "loop"
               /\ eaten' = eaten + r.p.eaten
               /\ overflow_checks' =
                      IF r.overflow
                      THEN IF checks THEN "on" ELSE "off"
                      ELSE overflow_checks
           Build(p, wrapped) ==
               \E checks \in
                     (IF ~wrapped.overflow THEN {FALSE}
                      ELSE CASE overflow_checks = "on" -> {TRUE}
                             [] overflow_checks = "off" -> {FALSE}
                             [] OTHER -> BOOLEAN) :
                   Push(IF checks THEN parse_event(p, TRUE) ELSE wrapped,
                        checks)
           Parse(p) == Build(p, parse_event(p, FALSE))
       IN  Parse(Parser(lexer, span, openers, events))
    /\ UNCHANGED <<src, released, origin>>

\* merge that takes in Str and Placeholder events only and stops before a
\* Whitespace.
RECURSIVE merge_str_only(_, _)
merge_str_only(sp, evs) ==
    IF evs # <<>> /\ Head(evs).kind \in {"Str", "Placeholder"}
    THEN IF sp.end # Head(evs).span.start
         THEN [span |-> sp, events |-> Tail(evs), panic |-> TRUE]
         ELSE merge_str_only(union(sp, Head(evs).span), Tail(evs))
    ELSE [span |-> sp, events |-> evs, panic |-> FALSE]

\* merge that takes in Str and Whitespace events and stops before a
\* Placeholder.
RECURSIVE merge_text_only(_, _)
merge_text_only(sp, evs) ==
    IF evs # <<>> /\ Head(evs).kind \in {"Str", "Whitespace"}
    THEN IF sp.end # Head(evs).span.start
         THEN [span |-> sp, events |-> Tail(evs), panic |-> TRUE]
         ELSE merge_text_only(union(sp, Head(evs).span), Tail(evs))
    ELSE [span |-> sp, events |-> evs, panic |-> FALSE]

\* The merge of the events that follow a Str or Whitespace at the front of
\* the buffer: the span merged so far, the events left, and whether the
\* assertion on adjacent spans failed.
RECURSIVE merge(_, _)
merge(sp, evs) ==
    IF evs # <<>> /\ Head(evs).kind \in {"Str", "Whitespace", "Placeholder"}
    THEN IF sp.end # Head(evs).span.start
         THEN [span |-> sp, events |-> Tail(evs), panic |-> TRUE]
         ELSE merge(union(sp, Head(evs).span), Tail(evs))
    ELSE [span |-> sp, events |-> evs, panic |-> FALSE]

\* The end of next(): the loop is over (nothing more is needed, or the input
\* is exhausted) and the front of the buffer is popped.  Text is merged with
\* the text after it and returned as a Str, a Placeholder is skipped (next()
\* calls itself), any other event is returned as it is.
PopFront ==
    /\ pc = "loop"
    /\ events # <<>>
    /\ IF MustParse THEN Exhausted ELSE TRUE
    /\ LET e == Head(events)
           m == merge(e.span, Tail(events))
       IN  CASE IsText(e) ->
                   /\ events' = m.events
                   /\ pc' = IF m.panic THEN "assert_eq" ELSE "loop"
                   /\ released' = IF m.panic THEN released
                                  ELSE Append(released, Event("Str", "", m.span))
             [] e.kind = "Placeholder" ->
                   /\ events' = Tail(events)
                   /\ UNCHANGED <<pc, released>>
             [] OTHER ->
                   /\ events' = Tail(events)
                   /\ released' = Append(released, e)
                   /\ pc' = pc
    /\ span' = IF MustParse THEN empty_at(span.end) ELSE span
    /\ UNCHANGED <<src, lexer, openers, overflow_checks, origin, eaten>>

\* next() on an empty buffer and an exhausted input returns None, and does
\* so again on every later call.
ReturnNone ==
    /\ pc \in {"loop", "done"}
    /\ events = <<>>
    /\ Exhausted
    /\ pc' = "done"
    /\ span' = empty_at(span.end)
    /\ UNCHANGED <<src, lexer, openers, events, released, overflow_checks,
                   origin, eaten>>

Next == ParseEvent \/ PopFront \/ ReturnNone

Spec == Init /\ [][Next]_vars

-----------------------------------------------------------------------------
(* Properties of the released stream.                                      *)

\* The positions of the released stream.
Released == DOMAIN released

IsEnter(e) == e.kind = "Enter"

IsExit(e) == e.kind = "Exit"

\* How many released events have this kind and this container.
Count(kind, c) ==
    Cardinality({i \in Released :
                    released[i].kind = kind /\ released[i].of = c})

\* The byte length of the input.
InputLen == ByteLen(0, Len(src))

\* C1: no call of next() panics in the merge: whenever a Str, Whitespace or
\* Placeholder is merged into the Str before it, the span merged so far ends
\* where that event begins, so the assertion of the merge loop never fails.
MergeAssertionHolds == pc # "assert_eq"

\* C2: once next() has returned None, the released stream holds as many
\* Enter(C) as Exit(C) events, for every container C.
EnterExitBalanced ==
    pc = "done" =>
        \A i \in Released :
            (IsEnter(released[i]) \/ IsExit(released[i])) =>
                Count("Enter", released[i].of) = Count("Exit", released[i].of)

\* A completed run that released containers of two kinds.
EnterExitBalancedWitness ==
    /\ pc = "done"
    /\ \E i, j \in Released :
          /\ IsEnter(released[i]) /\ IsEnter(released[j])
          /\ released[i].of # released[j].of

\* What no stack of containers is: the mark of an Exit that closed nothing
\* or closed a container other than the innermost open one.
Mismatch == <<"mismatch">>

\* The containers entered and not yet exited after the first n released
\* events, innermost last; Mismatch once an Exit did not close the innermost.
RECURSIVE OpenAfter(_)
OpenAfter(n) ==
    IF n = 0 THEN <<>>
    ELSE LET s == OpenAfter(n - 1)
             e == released[n]
         IN  CASE s = Mismatch -> Mismatch
               [] IsEnter(e) -> Append(s, e.of)
               [] IsExit(e) ->
                     IF s # <<>> /\ s[Len(s)] = e.of
                     THEN SubSeq(s, 1, Len(s) - 1)
                     ELSE Mismatch
               [] OTHER -> s

\* C3: the released stream is properly nested: every Exit(C) closes the
\* innermost container still open, and that container is C; and once
\* next() has returned None every Enter has been followed by its Exit.
ProperlyNested ==
    /\ OpenAfter(Len(released)) # Mismatch
    /\ pc = "done" => OpenAfter(Len(released)) = <<>>

\* A completed run in which a container was entered inside another.
ProperlyNestedWitness ==
    /\ pc = "done"
    /\ \E n \in Released : OpenAfter(n) # Mismatch /\ Len(OpenAfter(n)) = 2

\* Two released events that follow one another and are both textual.
AdjacentText(i) ==
    /\ i \in Released /\ i + 1 \in Released
    /\ IsText(released[i]) /\ IsText(released[i + 1])

\* The last event of a non-empty sequence.
Last(s) == s[Len(s)]

\* C4 as stated, for the runs in which no arithmetic overflowed: no two
\* consecutive released events are both textual.
NoAdjacentText ==
    overflow_checks = "unknown" => \A i \in Released : ~AdjacentText(i)

\* C4: adjacent textual content of the event buffer is released as a single
\* Str: when next() returns a Str, the event left at the front of the buffer
\* is neither a Str, nor a Whitespace, nor a Placeholder.  (Two consecutive
\* released events are both Str where the second was parsed after the first
\* was returned, as after an attribute block without attributes.)
TextReleasedWhole ==
    [][(released' # released /\ IsText(Last(released')))
          => (events' = <<>>
              \/ Head(events').kind \notin {"Str", "Whitespace", "Placeholder"})
      ]_vars

\* A completed run that released two Str one after the other.
TextReleasedWholeWitness ==
    /\ pc = "done"
    /\ \E i \in Released : AdjacentText(i)

\* C5: every released Attributes event is immediately followed by an Enter:
\* the event released after it is an Enter, and it is not the last event of
\* a completed run.
AttributesBeforeEnter ==
    \A i \in Released :
        released[i].kind = "Attributes" =>
            /\ i + 1 \in Released => IsEnter(released[i + 1])
            /\ pc = "done" => i + 1 \in Released

\* A completed run that released Attributes in front of the Enter of a link.
AttributesBeforeEnterWitness ==
    /\ pc = "done"
    /\ \E i \in Released :
          /\ released[i].kind = "Attributes"
          /\ i + 1 \in Released
          /\ IsEnter(released[i + 1])
          /\ released[i + 1].of \in {"ReferenceLink", "InlineLink"}

\* Whether span a lies within span b, and whether the two share a byte.
Within(a, b) == b.start <= a.start /\ a.end <= b.end

Overlap(a, b) == a.start < b.end /\ b.start < a.end

\* C6: an opener still on the stack when the input has ended is literal
\* text: once next() has returned None, its delimiter lies within a released
\* Str, and no released Enter or Exit covers a byte of it.
UnclosedOpenerIsText ==
    pc = "done" =>
        \A k \in DOMAIN openers :
            /\ \E i \in Released :
                  /\ released[i].kind = "Str"
                  /\ Within(openers[k].token, released[i].span)
            /\ \A i \in Released :
                  (IsEnter(released[i]) \/ IsExit(released[i]))
                      => ~Overlap(openers[k].token, released[i].span)

\* A completed run that left three openers on the stack and released one
\* Str for the whole input.
UnclosedOpenerIsTextWitness ==
    /\ pc = "done"
    /\ Len(openers) = 3
    /\ released = <<Event("Str", "", Span_new(0, InputLen))>>

\* The index of the character that begins at byte b of the input.
RECURSIVE CharIndex(_, _)
CharIndex(b, i) ==
    IF b <= 0 \/ i >= Len(src) THEN i
    ELSE CharIndex(b - len_utf8(src[i + 1]), i + 1)

\* The characters of the input a span covers.
SpanText(sp) == SubSeq(src, CharIndex(sp.start, 0) + 1, CharIndex(sp.end, 0))

\* The delimiter tokens that can only close.
CloseOnly ==
    {<<"]">>, <<"*", "}">>, <<"_", "}">>, <<"^", "}">>, <<"~", "}">>,
     <<"=", "}">>, <<"-", "}">>, <<"+", "}">>}

\* The containers whose Enter has the span of the opening delimiter.
DelimContainers ==
    {"Strong", "Emphasis", "Superscript", "Subscript", "Mark", "Delete",
     "Insert", "Span"}

VerbatimKinds == {"Verbatim", "InlineMath", "DisplayMath"}

\* The Exit at position i of the released stream has the span of a backtick
\* run that lies after the opener (the Enter two events before it).
ClosedByRun(i) ==
    /\ released[i].span.start < released[i].span.end
    /\ released[i].span.start >= released[i - 2].span.end
    /\ \A k \in DOMAIN SpanText(released[i].span) :
          SpanText(released[i].span)[k] = Backtick

\* C8: the Exit of a verbatim or math container that no backtick run closed
\* has an empty span at the end of the input.
UnclosedVerbatimExit ==
    \A i \in Released :
        (IsExit(released[i]) /\ released[i].of \in VerbatimKinds
         /\ ~ClosedByRun(i))
            => released[i].span = empty_at(InputLen)

\* The next token is a "{" after a buffered Str and the validator reports
\* that no attribute block begins there.
MalformedBlock ==
    /\ pc = "loop" /\ MustParse /\ ~Exhausted
    /\ Lexer_next(lexer).tok.kind = "Open(Brace)"
    /\ events # <<>> /\ Last(events).kind = "Str"
    /\ valid_after_brace(Lexer_inner(Lexer_next(lexer).lexer)).len = 0

\* C9: on a "{" after a buffered Str that begins no attribute block,
\* parse_attributes gives no event, without overflow and without panic, and
\* leaves the lexer, the span and the buffer as they are: the "{" becomes a
\* Str of the buffer and nothing else changes.
MalformedBlockIsText ==
    [][MalformedBlock =>
          LET e == eat(reset_span(Parser(lexer, span, openers, events)))
          IN  /\ pc' = "loop"
              /\ overflow_checks' = overflow_checks
              /\ lexer' = e.p.lexer
              /\ span' = e.p.span
              /\ events' = Append(events, Event("Str", "", e.p.span))
      ]_vars

-----------------------------------------------------------------------------
(* The released spans and the bytes of the input.                          *)

\* The released spans, one after the other, make up the range of the input:
\* the first begins at 0, each begins where the one before it ends, and the
\* last ends at the end of the input.
Tiles ==
    IF released = <<>> THEN InputLen = 0
    ELSE /\ released[1].span.start = 0
         /\ Last(released).span.end = InputLen
         /\ \A i \in Released :
               i + 1 \in Released =>
                   released[i].span.end = released[i + 1].span.start

\* The characters that make a "{" the first of a delimiter token.
BraceSecond == {"*", "_", "^", "~", "=", "-", "+"}

\* No "{" of the input can begin an attribute block: each is the first
\* character of a brace delimiter.
NoAttributeBrace ==
    \A i \in DOMAIN src : src[i] = "{" => CharAt(i) \in BraceSecond

\* Every character of the input is one byte long.
OneByteChars == \A i \in DOMAIN src : len_utf8(src[i]) = 1

DelimitedOnly ==
    \A i \in Released :
        \/ released[i].kind \in {"Str", "Atom"}
        \/ /\ released[i].kind \in {"Enter", "Exit"}
           /\ released[i].of \in DelimContainers

-----------------------------------------------------------------------------
(* A fresh parser over the text of a released Str.                         *)

\* Whether byte offset b of the input is where a character begins, or the
\* end of the input: Span::of slices the input there, and slicing a str
\* elsewhere panics.
OnCharBoundary(b) == b >= 0 /\ ByteLen(0, CharIndex(b, 0)) = b

\* The innermost container open at position i of the released stream, "" if
\* none is.
Innermost(i) ==
    LET In(s) == IF s = Mismatch \/ s = <<>> THEN "" ELSE Last(s)
    IN  In(OpenAfter(i - 1))

\* An input of one-byte characters in which no "{" can begin an attribute
\* block.
Plain == OneByteChars /\ NoAttributeBrace

\* Parser::new over the text of a Str the parser released, once next() has
\* returned None: the text is the slice of the input the span of the Str
\* covers; the build is the same.
Reparse ==
    /\ pc = "done"
    /\ ~origin.slice
    /\ \E i \in Released :
          /\ released[i].kind = "Str"
          /\ released[i].span.start <= released[i].span.end
          /\ OnCharBoundary(released[i].span.start)
          /\ OnCharBoundary(released[i].span.end)
          /\ src' = SpanText(released[i].span)
          /\ origin' = SliceOfStr(Innermost(i), Plain)
    /\ lexer' = Lexer_new(0)
    /\ span' = Span_new(0, 0)
    /\ openers' = <<>>
    /\ events' = <<>>
    /\ released' = <<>>
    /\ eaten' = 0
    /\ pc' = "loop"
    /\ UNCHANGED overflow_checks

SliceNext == Next \/ Reparse

\* The parser over every input, and then over the Str slices of its output.
SliceSpec == Init /\ [][SliceNext]_vars

\* The stream of one Str that covers the whole input.
OneStr == <<Event("Str", "", Span_new(0, InputLen))>>

LiteralContainers == VerbatimKinds \cup {"RawFormat", "Autolink"}

-----------------------------------------------------------------------------
(* Closing delimiters and the opener stack.                                *)

\* The token parse_event is about to eat, NoToken where it eats none.
NextToken ==
    IF pc = "loop" /\ MustParse THEN Lexer_next(lexer).tok ELSE NoToken

\* The next token is a delimiter that may close, and the opener it matches
\* is at position o of the stack.
ClosesAt(o) ==
    /\ from_token(NextToken.kind).dir \in {"Close", "Both"}
    /\ o >= 0
    /\ matching_opener(openers, from_token(NextToken.kind).delim,
                       Len(openers)) = o

\* C13: when a delimiter that may close matches the opener at position o of
\* the stack, the stack has depth o once the token is processed: the
\* matched opener and all above it are gone and none is pushed.
ClosureLocality ==
    [][\A o \in 0..(Len(openers) - 1) :
          (ClosesAt(o) /\ overflow_checks = "unknown") => Len(openers') = o
      ]_vars

\* C14: no closures cross: when a closer matches an opener that has openers
\* above it on the stack, those are removed from the stack, so that no
\* later closer can match them, and the delimiter of each is text of the
\* buffer behind the event of the matched opener; where the matched opener
\* becomes a container, that event is its Enter and the Exit comes last.
DescendantsDiscarded ==
    [][\A o \in 0..(Len(openers) - 1) :
          ClosesAt(o) =>
              /\ \A k \in (o + 2)..Len(openers) :
                    /\ \A j \in DOMAIN openers' : openers'[j] # openers[k]
                    /\ \E n \in DOMAIN events' :
                          /\ n > At(openers, o).event + 2
                          /\ events'[n].kind = "Str"
                          /\ Within(openers[k].token, events'[n].span)
              /\ try_from(At(openers, o).delim) # "Err" =>
                    /\ IsEnter(events'[At(openers, o).event + 2])
                    /\ IsExit(Last(events'))
                    /\ Last(events').of = events'[At(openers, o).event + 2].of
      ]_vars

\* The run of the test container_close_parent, with a for abc: the closer of
\* the outer Strong discards the inner opener, which is released as text.
DescendantsDiscardedWitness ==
    /\ src = <<"{", "*", "{", "_", "a", "*", "}">>
    /\ pc = "done"
    /\ released = <<Event("Enter", "Strong", Span_new(0, 2)),
                    Event("Str", "", Span_new(2, 5)),
                    Event("Exit", "Strong", Span_new(5, 7))>>

-----------------------------------------------------------------------------
(* Attributes.                                                             *)

\* The Enter of a word with attributes: an Enter(Span) with an empty span
\* (the Enter of a bracketed span has the span of its bracket).
IsWordEnter(e) ==
    IsEnter(e) /\ e.of = "Span" /\ e.span.start = e.span.end

\* C15: a word with attributes is released as Attributes, Enter(Span), Str,
\* Exit(Span), one after the other, whatever follows it and whether or not
\* an opener is pending: in the runs in which no arithmetic overflowed, once
\* next() has returned None, the Enter(Span) of a word has the Attributes
\* right before it, their span beginning where the word ends, and the Str
\* of the word and an empty Exit(Span) at its end right after it.
AttributedWordReleased ==
    (pc = "done" /\ overflow_checks = "unknown") =>
        \A i \in Released :
            IsWordEnter(released[i]) =>
                /\ i - 1 \in Released /\ i + 2 \in Released
                /\ released[i - 1].kind = "Attributes"
                /\ released[i + 1].kind = "Str"
                /\ released[i + 1].span.start = released[i].span.start
                /\ released[i - 1].span.start = released[i + 1].span.end
                /\ released[i + 2] =
                       Event("Exit", "Span", empty_at(released[i + 1].span.end))

\* The bytes of the adjacent valid attribute blocks that begin at character
\* index i: 0 where none begins there.
RECURSIVE BlockBytes(_)
BlockBytes(i) ==
    LET Block(r) == IF r.len > 0 THEN r.len + BlockBytes(i + r.n) ELSE 0
    IN  Block(valid(i))

\* C16: adjacent valid attribute blocks are reported as one Attributes event
\* whose span covers exactly all of them: the span of every released
\* Attributes event begins at a valid block and ends where the last of the
\* valid blocks adjacent to it ends.
AttributesCoverBlocks ==
    \A i \in Released :
        released[i].kind = "Attributes" =>
            /\ OnCharBoundary(released[i].span.start)
            /\ BlockBytes(CharIndex(released[i].span.start, 0)) > 0
            /\ released[i].span.end =
                   released[i].span.start
                       + BlockBytes(CharIndex(released[i].span.start, 0))

\* Whether one of the adjacent valid attribute blocks that begin at character
\* index i holds an attribute.
RECURSIVE BlocksHaveAttr(_)
BlocksHaveAttr(i) ==
    LET Block(r) == r.len > 0 /\ (r.non_empty \/ BlocksHaveAttr(i + r.n))
    IN  Block(valid(i))

\* Byte offset b is where a run of attribute blocks begins of which none
\* holds an attribute.
EmptyBlocksAt(b) ==
    /\ OnCharBoundary(b)
    /\ BlockBytes(CharIndex(b, 0)) > 0
    /\ ~BlocksHaveAttr(CharIndex(b, 0))

\* The bytes of the attribute blocks that begin at byte offset b.
BlocksSpan(b) == by_len(b, BlockBytes(CharIndex(b, 0)))

\* The released event e is a word (a Str that does not end in whitespace) or
\* the end of a closed container.
WordOrClosed(e) ==
    \/ /\ e.kind = "Str"
       /\ e.span.start < e.span.end
       /\ OnCharBoundary(e.span.end)
       /\ ~is_whitespace(CharAt(CharIndex(e.span.end, 0) - 1))
    \/ IsExit(e) /\ e.of \in DelimContainers

\* C17: attribute blocks without an attribute that follow a word or a closed
\* container leave no trace in the released stream: where a released Str or
\* the Exit of a delimited container ends at the first of such blocks, no
\* released span holds a byte of the blocks (so there is no Attributes
\* event for them), the Str is not the word of an Enter(Span), and the Exit
\* is the closing delimiter of its container and not the Exit of a Span.
EmptyBlocksLeaveNoTrace ==
    \A i \in Released :
        (WordOrClosed(released[i]) /\ EmptyBlocksAt(released[i].span.end)) =>
            /\ \A j \in Released :
                  ~Overlap(released[j].span, BlocksSpan(released[i].span.end))
            /\ released[i].kind = "Str" =>
                  ~(i - 1 \in Released /\ IsWordEnter(released[i - 1]))
            /\ IsExit(released[i]) =>
                  /\ released[i].of # "Span"
                  /\ released[i].span.start < released[i].span.end

-----------------------------------------------------------------------------
(* Links, images, autolinks and raw formats.                               *)

\* The character index behind the token parse_event is about to eat.
AfterNextToken == Lexer_next(lexer).lexer.chars

\* The byte offset of the character at index i.
ByteOffset(i) == ByteLen(0, i)

\* The characters of a link target that begins with the bracket or
\* parenthesis at index c: up to the first closing or opening one.
TargetLen(c) ==
    CountUntil(c + 1, {CharAt(c), IF CharAt(c) = "[" THEN "]" ELSE ")"})

\* A "[tag]" or "(url)" begins at character index c.
TargetAt(c) ==
    /\ CharAt(c) \in {"[", "("}
    /\ CharAt(c + 1 + TargetLen(c)) = (IF CharAt(c) = "[" THEN "]" ELSE ")")

\* The bytes between the brackets of the target at character index c.
TargetSpan(c) ==
    Span_new(ByteOffset(c + 1), ByteOffset(c + 1 + TargetLen(c)))

\* The container of a span opener of the given Delim with a target that
\* begins with the given character.
LinkKind(delim, opener) ==
    IF opener = "["
    THEN IF delim = "Span(Image)" THEN "ReferenceImage" ELSE "ReferenceLink"
    ELSE IF delim = "Span(Image)" THEN "InlineImage" ELSE "InlineLink"

\* C18: when "]" matches a span opener and "[tag]" or "(url)" follows it, the
\* event of the opener becomes Enter(K) and Exit(K) is emitted, both with
\* the span of the bytes between the brackets of the target, K the reference
\* or inline link or image the opener and the target call for; and parsing
\* resumes behind the target, or behind the attribute blocks after it.
LinkResolved ==
    [][\A o \in 0..(Len(openers) - 1) :
          (/\ ClosesAt(o) /\ NextToken.kind = "Close(Bracket)"
           /\ TargetAt(AfterNextToken)
           /\ overflow_checks = "unknown")
              => LET c == AfterNextToken
                     K == LinkKind(At(openers, o).delim, CharAt(c))
                     behind == c + TargetLen(c) + 2
                 IN  /\ events'[At(openers, o).event + 2] =
                            Event("Enter", K, TargetSpan(c))
                     /\ Last(events') = Event("Exit", K, TargetSpan(c))
                     /\ lexer'.next = NoToken
                     /\ lexer'.chars =
                            CharIndex(ByteOffset(behind) + BlockBytes(behind), 0)
      ]_vars

\* The characters after a "<" whose first is at index c, up to the first ">"
\* or whitespace.
InteriorLen(c) == CountUntil(c, {">"} \cup WhitespaceChars)

\* The "<" in front of character index c begins an autolink: a ">" comes
\* before any whitespace, and a ":" or "@" before it.
AutolinkAt(c) ==
    /\ CharAt(c + InteriorLen(c)) = ">"
    /\ \E k \in 0..(InteriorLen(c) - 1) : CharAt(c + k) \in {":", "@"}

\* C19: a "<" token gives Enter(Autolink) with the span of "<", a Str with
\* the span of the interior and Exit(Autolink) with the span of ">", and
\* parsing resumes behind the ">", if and only if a ">" comes before any
\* whitespace with a ":" or "@" in between; otherwise "<" is text and the
\* characters after it are tokenized.
AutolinkIffUrl ==
    [][(NextToken.kind = "Sym(Lt)" /\ overflow_checks = "unknown")
          => LET c == AfterNextToken
                 end == c + InteriorLen(c)
             IN  IF AutolinkAt(c)
                 THEN /\ events' = events \o
                            <<Event("Enter", "Autolink",
                                    Span_new(ByteOffset(c - 1), ByteOffset(c))),
                              Event("Str", "",
                                    Span_new(ByteOffset(c), ByteOffset(end))),
                              Event("Exit", "Autolink",
                                    Span_new(ByteOffset(end),
                                             ByteOffset(end + 1)))>>
                      /\ lexer' = Lexer_new(end + 1)
                 ELSE /\ events' = Append(events,
                                          Event("Str", "",
                                                Span_new(ByteOffset(c - 1),
                                                         ByteOffset(c))))
                      /\ lexer' = Lexer_next(lexer).lexer
      ]_vars

\* The characters of a format tag whose first is at index c, up to the first
\* brace or whitespace.
TagLen(c) == CountUntil(c, {"{", "}"} \cup WhitespaceChars)

\* A raw format begins at character index c: "{=", one or more characters
\* none of which is whitespace or "{", and "}".
RawTagAt(c) ==
    /\ CharAt(c) = "{" /\ CharAt(c + 1) = "="
    /\ TagLen(c + 2) > 0
    /\ CharAt(c + 2 + TagLen(c + 2)) = "}"

\* The bytes of the tag of the raw format that begins at character index c.
RawTagSpan(c) ==
    Span_new(ByteOffset(c + 2), ByteOffset(c + 2 + TagLen(c + 2)))

\* C20: a verbatim closed by its backtick run is released as a RawFormat,
\* the Enter and the Exit with the span of the tag, if and only if a raw
\* format begins right behind the closing run; a math container keeps its
\* kind.  In the runs in which no arithmetic overflowed: an Exit(RawFormat)
\* and its Enter have the span of the tag of a raw format that begins behind
\* a backtick, no raw format begins where an Exit(Verbatim) that is a
\* closing run ends, and the Enter of every Exit has its kind.
RawFormatIffTag ==
    overflow_checks = "unknown" =>
        \A i \in Released :
            (IsExit(released[i])
             /\ released[i].of \in VerbatimKinds \cup {"RawFormat"}) =>
                /\ i - 2 \in Released
                /\ IsEnter(released[i - 2])
                /\ released[i - 2].of = released[i].of
                /\ released[i].of = "RawFormat" =>
                      \E c \in 1..Len(src) :
                          /\ CharAt(c - 1) = Backtick
                          /\ RawTagAt(c)
                          /\ released[i].span = RawTagSpan(c)
                          /\ released[i - 2].span = RawTagSpan(c)
                /\ (released[i].of = "Verbatim" /\ ClosedByRun(i)) =>
                      ~RawTagAt(CharIndex(released[i].span.end, 0))

-----------------------------------------------------------------------------
(* Verbatim and math, token by token.                                      *)

\* The parser's span stands at the byte offset of the token parse_event is
\* about to eat.
InStep == span.end = ByteOffset(AfterNextToken - NextToken.n)

\* The character index of the first token from index i on that is a backtick
\* run of n backticks, -1 if there is none.
RECURSIVE ClosingRun(_, _)
ClosingRun(i, n) ==
    IF i >= Len(src) THEN -1
    ELSE IF token(i).kind = "Seq(Backtick)" /\ token(i).n = n THEN i
    ELSE ClosingRun(i + token(i).n, n)

\* The bytes of the n characters from index i on.
Bytes(i, n) == Span_new(ByteOffset(i), ByteOffset(i + n))

\* C21: a run of k dollars with a run of n backticks right behind it opens
\* InlineMath for k = 1 and DisplayMath for k = 2: the Enter has the span of
\* the dollars and the backticks, a Str follows, and the Exit is the first
\* run of exactly n backticks behind the opener, where parsing resumes (at
\* the end of the input if there is none).  Any other run of dollars is a Str
\* and the token behind it is read next; and the Enter a run of backticks
\* opens on its own is never that of a math container.
MathOpener ==
    [][/\ (NextToken.kind = "Seq(Dollar)" /\ InStep) =>
            LET c == AfterNextToken
                k == NextToken.n
                n == CountWhile(c, {Backtick})
                Math(kind, close) ==
                    /\ Len(events') = Len(events) + 3
                    /\ SubSeq(events', 1, Len(events)) = events
                    /\ events'[Len(events) + 1] =
                           Event("Enter", kind, Bytes(c - k, k + n))
                    /\ events'[Len(events) + 2].kind = "Str"
                    /\ events'[Len(events) + 3].kind = "Exit"
                    /\ events'[Len(events) + 3].of = kind
                    /\ close # -1 =>
                           events'[Len(events) + 3].span = Bytes(close, n)
                    /\ Lexer_next(lexer') =
                           Lexer_next(Lexer_new(IF close = -1 THEN Len(src)
                                                ELSE close + n))
            IN  /\ openers' = openers
                /\ IF k <= 2 /\ n > 0
                   THEN Math(IF k = 1 THEN "InlineMath" ELSE "DisplayMath",
                             ClosingRun(c + n, n))
                   ELSE /\ events' = Append(events,
                                            Event("Str", "", Bytes(c - k, k)))
                        /\ Lexer_next(lexer') = Lexer_next(Lexer_new(c))
       /\ NextToken.kind = "Seq(Backtick)" =>
            /\ IsEnter(events'[Len(events) + 1])
            /\ events'[Len(events) + 1].of \in {"Verbatim", "RawFormat"}
      ]_vars

\* Inline math with the content a, opened and closed by one backtick.
MathOpenerWitness ==
    /\ src = <<"$", Backtick, "a", Backtick>>
    /\ pc = "done"
    /\ released = <<Event("Enter", "InlineMath", Span_new(0, 2)),
                    Event("Str", "", Span_new(2, 3)),
                    Event("Exit", "InlineMath", Span_new(3, 4))>>

-----------------------------------------------------------------------------
(* Spans as byte ranges.                                                   *)

\* C22: the lengths the scans of an autolink, a raw format tag and a link
\* target add to spans are byte lengths.  In the runs in which no arithmetic
\* overflowed: every released span begins and ends at a character of the
\* input (so that the input can be sliced by it), and whenever parse_event
\* is about to eat a token the parser's span stands at the byte offset of
\* that token.
SpansAreByteRanges ==
    overflow_checks = "unknown" =>
        /\ \A i \in Released :
              /\ OnCharBoundary(released[i].span.start)
              /\ OnCharBoundary(released[i].span.end)
              /\ released[i].span.end <= InputLen
        /\ NextToken # NoToken => InStep

-----------------------------------------------------------------------------
(* The release discipline of next().                                       *)

\* The character index at which the next token of a lexer begins.
TokenStart(lx) == Lexer_next(lx).lexer.chars - Lexer_next(lx).tok.n

\* s is what is left of t after some of its first elements are removed.
IsProperSuffix(s, t) ==
    Len(s) < Len(t) /\ s = SubSeq(t, Len(t) - Len(s) + 1, Len(t))

\* C23: while the input is not exhausted, a step hands out an event only if
\* the buffer is not empty, no opener is pending and the last buffered event
\* is no text, and the event is the front of the buffer; in every other case
\* the step consumes a token and hands out nothing.  Once the input is
\* exhausted the buffer is only shortened from the front, whatever the
\* opener stack holds, and what is handed out is its front: text merged
\* with the text behind it, any other event as it is.
ReleaseDiscipline ==
    [][pc = "loop" =>
          LET front == Head(events)
              ready == /\ events # <<>> /\ openers = <<>>
                       /\ ~IsText(Last(events))
              handed == released' # released
              popped ==
                  /\ IsProperSuffix(events', events)
                  /\ lexer' = lexer /\ openers' = openers
                  /\ handed =>
                        /\ Len(released') = Len(released) + 1
                        /\ SubSeq(released', 1, Len(released)) = released
                        /\ IF IsText(front)
                           THEN /\ Last(released').kind = "Str"
                                /\ Last(released').span.start = front.span.start
                           ELSE Last(released') = front
          IN  IF Exhausted
              THEN events # <<>> => popped
              ELSE IF ready
              THEN popped
              ELSE /\ ~handed
                   /\ TokenStart(lexer') > TokenStart(lexer)
      ]_vars

\* An emphasis has been handed out while the input is not exhausted.
ReleaseDisciplineWitness ==
    /\ src = <<"_", "a", "_", "a">>
    /\ pc = "loop"
    /\ ~Exhausted
    /\ released = <<Event("Enter", "Emphasis", Span_new(0, 1)),
                    Event("Str", "", Span_new(1, 2)),
                    Event("Exit", "Emphasis", Span_new(2, 3))>>

-----------------------------------------------------------------------------
(* The records of the opener stack.                                        *)

\* C24: while tokens are still being consumed, every record of the opener
\* stack points at a Placeholder of the buffer, and the event behind the
\* Placeholder is the Str of the opener's delimiter token.  (In the runs in
\* which no arithmetic overflowed.)
OpenerRecords ==
    (pc = "loop" /\ ~Exhausted /\ overflow_checks = "unknown") =>
        \A k \in DOMAIN openers :
            /\ openers[k].event + 2 <= Len(events)
            /\ At(events, openers[k].event).kind = "Placeholder"
            /\ At(events, openers[k].event + 1) =
                   Event("Str", "", openers[k].token)

-----------------------------------------------------------------------------
(* Which opener a delimiter closes.                                        *)

\* The opener at place k of the stack (the top is the last place) has the
\* Delim d, or both are Span delimiters.
SameDelim(k, d) ==
    openers[k].delim = d \/ (IsSpanDelim(openers[k].delim) /\ IsSpanDelim(d))

\* The topmost place of the stack with the Delim d, 0 if there is none.
TopSameDelim(d) ==
    IF \E k \in DOMAIN openers : SameDelim(k, d)
    THEN CHOOSE k \in DOMAIN openers :
             SameDelim(k, d) /\ \A j \in (k + 1)..Len(openers) : ~SameDelim(j, d)
    ELSE 0

\* C25: a delimiter token that may close (Close or Both) closes the topmost
\* opener of its own Delim, a "]" the topmost Span opener: the openers below
\* it stay, it and those above it leave the stack, and where the Delim is
\* that of a container the opener's event becomes its Enter and the token
\* its Exit.  A delimiter token that may only open closes nothing: it is
\* pushed on top of the stack as it is, with a Placeholder and a Str.
ClosesTopmostEqual ==
    [][from_token(NextToken.kind) # NoDelim =>
          LET d == from_token(NextToken.kind).delim
              dir == from_token(NextToken.kind).dir
              k == TopSameDelim(d)
          IN  /\ (dir \in {"Close", "Both"} /\ k > 0) =>
                    /\ Len(openers') >= k - 1
                    /\ SubSeq(openers', 1, k - 1) = SubSeq(openers, 1, k - 1)
                    /\ \A j \in k..Len(openers) :
                          \A n \in DOMAIN openers' : openers'[n] # openers[j]
                    /\ try_from(d) # "Err" =>
                          /\ Len(openers') = k - 1
                          /\ IsEnter(events'[openers[k].event + 2])
                          /\ events'[openers[k].event + 2].of = try_from(d)
                          /\ IsExit(Last(events'))
                          /\ Last(events').of = try_from(d)
              /\ dir = "Open" =>
                    /\ Len(openers') = Len(openers) + 1
                    /\ SubSeq(openers', 1, Len(openers)) = openers
                    /\ Last(openers').delim = d
                    /\ Last(openers').event = Len(events)
                    /\ Len(events') = Len(events) + 2
                    /\ SubSeq(events', 1, Len(events)) = events
                    /\ events'[Len(events) + 1].kind = "Placeholder"
                    /\ events'[Len(events) + 2].kind = "Str"
      ]_vars

\* The closer of the brace form closes the opener of the brace form and not
\* the bare symbol above it, which is text of the emphasis.
ClosesTopmostEqualWitness ==
    /\ src = <<"{", "_", "_", "a", "_", "}">>
    /\ pc = "done"
    /\ released = <<Event("Enter", "Emphasis", Span_new(0, 2)),
                    Event("Str", "", Span_new(2, 4)),
                    Event("Exit", "Emphasis", Span_new(4, 6))>>

-----------------------------------------------------------------------------
(* Scans that fail.                                                        *)

\* The step leaves the lexer behind the token it ate and the events of the
\* buffer as they were, and adds text to the buffer, no Enter and no Exit.
TokenIsText ==
    /\ Lexer_next(lexer') = Lexer_next(Lexer_new(AfterNextToken))
    /\ Len(events') > Len(events)
    /\ SubSeq(events', 1, Len(events)) = events
    /\ \A n \in (Len(events) + 1)..Len(events') :
          events'[n].kind \in {"Str", "Placeholder"}

\* The closing run of the verbatim the next token, a backtick run, opens:
\* the character index of the run, -1 if there is none.
RawClose == ClosingRun(AfterNextToken, NextToken.n)

\* The next token opens a verbatim that is closed, and "{=" follows the
\* closing run without a tag and its closing brace.
RawFormatFails ==
    /\ NextToken.kind = "Seq(Backtick)"
    /\ RawClose # -1
    /\ CharAt(RawClose + NextToken.n) = "{"
    /\ CharAt(RawClose + NextToken.n + 1) = "="
    /\ ~RawTagAt(RawClose + NextToken.n)

\* C26: a scan that fails leaves the lexer where it was and the events of
\* the buffer as they were.  A "<" that begins no autolink and a "]" that
\* matches a span opener and has a "[" or "(" behind it that begins no
\* target are text, and the token behind them is read next; a verbatim
\* whose closing run has a "{=" behind it that begins no raw format stays a
\* Verbatim with the spans of its backtick runs, and the "{=" is read next.
FailedScanFrame ==
    [][/\ (NextToken.kind = "Sym(Lt)" /\ ~AutolinkAt(AfterNextToken))
            => TokenIsText
       /\ (/\ NextToken.kind = "Close(Bracket)"
           /\ \E o \in 0..(Len(openers) - 1) : ClosesAt(o)
           /\ CharAt(AfterNextToken) \in {"[", "("}
           /\ ~TargetAt(AfterNextToken))
            => TokenIsText
       /\ (RawFormatFails /\ InStep) =>
             LET Stays(n, close) ==
                     /\ Lexer_next(lexer') = Lexer_next(Lexer_new(close + n))
                     /\ Lexer_next(lexer').tok.kind = "Open(BraceEqual)"
                     /\ Len(events') = Len(events) + 3
                     /\ SubSeq(events', 1, Len(events)) = events
                     /\ events'[Len(events) + 1] =
                            Event("Enter", "Verbatim",
                                  Bytes(AfterNextToken - n, n))
                     /\ events'[Len(events) + 2].kind = "Str"
                     /\ events'[Len(events) + 3] =
                            Event("Exit", "Verbatim", Bytes(close, n))
             IN  Stays(NextToken.n, RawClose)
      ]_vars

\* The run of the test raw_attr, cut short: the tag ends with whitespace, the
\* verbatim stays a Verbatim and "{= " is text.
FailedScanFrameWitness ==
    /\ src = <<Backtick, "a", Backtick, "{", "=", " ">>
    /\ pc = "done"
    /\ released = <<Event("Enter", "Verbatim", Span_new(0, 1)),
                    Event("Str", "", Span_new(1, 2)),
                    Event("Exit", "Verbatim", Span_new(2, 3)),
                    Event("Str", "", Span_new(3, 6))>>

-----------------------------------------------------------------------------
(* The content of a verbatim.                                              *)

\* The next token opens a verbatim or math container.
VerbatimOpens ==
    \/ NextToken.kind = "Seq(Backtick)"
    \/ /\ NextToken.kind = "Seq(Dollar)" /\ NextToken.n <= 2
       /\ CharAt(AfterNextToken) = Backtick

\* The backticks of the opener.
OpenerRun ==
    IF NextToken.kind = "Seq(Backtick)" THEN NextToken.n
    ELSE CountWhile(AfterNextToken, {Backtick})

\* The character indices at which the content of the container begins and
\* ends: behind the opener, and at the first run of as many backticks as the
\* opener has or at the end of the input.
ContentStart ==
    IF NextToken.kind = "Seq(Backtick)" THEN AfterNextToken
    ELSE AfterNextToken + OpenerRun

ContentEnd ==
    LET End(close) == IF close = -1 THEN Len(src) ELSE close
    IN  End(ClosingRun(ContentStart, OpenerRun))

\* The characters from index a up to index b are spaces and tabs.
Blank(a, b) == \A i \in a..(b - 1) : CharAt(i) \in {" ", "\t"}

\* C27: the step that reads a verbatim or math opener adds three events to
\* the buffer, the Enter, one Str and the Exit, and leaves the opener stack
\* and the events before them as they are; the Str covers the input from
\* behind the opener to the first run of as many backticks as the opener
\* has (the end of the input if there is none), but for blanks at its two
\* ends; and the token read next lies behind that run.
ContentIsOneStr ==
    [][(VerbatimOpens /\ InStep) =>
          LET Str(e) ==
                  /\ e.kind = "Str"
                  /\ \E a \in ContentStart..ContentEnd :
                        \E b \in a..ContentEnd :
                            /\ e.span = Bytes(a, b - a)
                            /\ Blank(ContentStart, a)
                            /\ Blank(b, ContentEnd)
          IN  /\ openers' = openers
              /\ Len(events') = Len(events) + 3
              /\ SubSeq(events', 1, Len(events)) = events
              /\ IsEnter(events'[Len(events) + 1])
              /\ Str(events'[Len(events) + 2])
              /\ IsExit(events'[Len(events) + 3])
              /\ TokenStart(lexer') >=
                     (IF ContentEnd = Len(src) THEN Len(src)
                      ELSE ContentEnd + OpenerRun)
      ]_vars

\* A verbatim with what would be an autolink inside, read while an opener
\* is pending.
ContentIsOneStrWitness ==
    /\ src = <<"_", Backtick, "<", "a", ":", ">", Backtick>>
    /\ pc = "done"
    /\ Len(openers) = 1
    /\ released = <<Event("Str", "", Span_new(0, 1)),
                    Event("Enter", "Verbatim", Span_new(1, 2)),
                    Event("Str", "", Span_new(2, 6)),
                    Event("Exit", "Verbatim", Span_new(6, 7))>>

\* No token.
NoTok == [kind |-> "None", start |-> 0, n |-> 0]

\* The first token from character index i on, before index end, that is no
\* Whitespace token: its kind, where it starts and its characters.
RECURSIVE FirstTok(_, _)
FirstTok(i, end) ==
    IF i >= end THEN NoTok
    ELSE IF token(i).kind # "Whitespace"
    THEN [kind |-> token(i).kind, start |-> i, n |-> token(i).n]
    ELSE FirstTok(i + token(i).n, end)

\* The last such token, best being the last found so far.
RECURSIVE LastTok(_, _, _)
LastTok(i, end, best) ==
    IF i >= end THEN best
    ELSE LastTok(i + token(i).n, end,
                 IF token(i).kind # "Whitespace"
                 THEN [kind |-> token(i).kind, start |-> i, n |-> token(i).n]
                 ELSE best)

\* C28: the Str of a verbatim begins at the first token of the content that
\* is no whitespace if that token is a backtick run, and at the beginning of
\* the content otherwise; it ends behind the last token that is no
\* whitespace if that token is a backtick run, and at the end of the content
\* otherwise.
TrimmedAtBackticks ==
    [][(VerbatimOpens /\ InStep) =>
          LET Trimmed(f, l) ==
                  LET a == IF f.kind = "Seq(Backtick)" THEN f.start
                           ELSE ContentStart
                      b == IF l.kind = "Seq(Backtick)" THEN l.start + l.n
                           ELSE ContentEnd
                  IN  events'[Len(events) + 2] = Event("Str", "", Bytes(a, b - a))
          IN  Trimmed(FirstTok(ContentStart, ContentEnd),
                      LastTok(ContentStart, ContentEnd, NoTok))
      ]_vars

\* A verbatim opened by two backticks whose content is a blank, a backtick
\* and a blank: the Str is the backtick.
TrimmedAtBackticksWitness ==
    /\ src = <<Backtick, Backtick, " ", Backtick, " ">>
    /\ pc = "done"
    /\ released = <<Event("Enter", "Verbatim", Span_new(0, 2)),
                    Event("Str", "", Span_new(3, 4)),
                    Event("Exit", "Verbatim", Span_new(5, 5))>>

-----------------------------------------------------------------------------
(* Brackets that resolve to nothing.                                       *)

\* The "]" at character index j stands right behind a "[", which it
\* therefore matches, and neither a target nor an attribute block begins
\* behind it.
UnresolvedAt(j) ==
    /\ CharAt(j) = "]" /\ CharAt(j - 1) = "["
    /\ ~TargetAt(j + 1)
    /\ valid(j + 1).len = 0

\* C29: the two brackets of a span that resolves to nothing are text,
\* whatever follows: in the runs in which no arithmetic overflowed, no
\* released Enter or Exit has the span of a "[" or of the "]" right behind
\* it when neither a target nor an attribute block follows that "]".
UnresolvedBracketsAreText ==
    overflow_checks = "unknown" =>
        \A j \in 1..(Len(src) - 1) :
            UnresolvedAt(j) =>
                \A i \in Released :
                    (IsEnter(released[i]) \/ IsExit(released[i])) =>
                        /\ released[i].span # Bytes(j - 1, 1)
                        /\ released[i].span # Bytes(j, 1)

-----------------------------------------------------------------------------
(* The interior of a link target.                                          *)

\* The character index of the first closer from index i on that no backslash
\* stands in front of; -1 if the opener or the end of the input comes first.
RECURSIVE UnescapedCloser(_, _, _)
UnescapedCloser(i, opener, closer) ==
    IF i >= Len(src) \/ CharAt(i) = opener THEN -1
    ELSE IF CharAt(i) = closer /\ CharAt(i - 1) # "\\" THEN i
    ELSE UnescapedCloser(i + 1, opener, closer)

\* C30: when "]" matches a span opener and a "[" or "(" stands behind it,
\* the interior of the target ends at the first closer that no backslash
\* escapes: the opener's event becomes the Enter and the token the Exit of
\* the link or image, both with the span of that interior; and if the
\* target's opening character or the end of the input comes first, nothing
\* is resolved and the opener's event stays as it is.  (For inputs of
\* one-byte characters, in the runs in which no arithmetic overflowed.)
InteriorEndsAtUnescapedCloser ==
    [][\A o \in 0..(Len(openers) - 1) :
          (/\ ClosesAt(o) /\ NextToken.kind = "Close(Bracket)"
           /\ CharAt(AfterNextToken) \in {"[", "("}
           /\ OneByteChars /\ overflow_checks = "unknown")
              => LET c == AfterNextToken
                     K == LinkKind(At(openers, o).delim, CharAt(c))
                     e_opener == At(openers, o).event + 2
                     Ends(end) ==
                         IF end # -1
                         THEN /\ events'[e_opener] =
                                    Event("Enter", K, Bytes(c + 1, end - c - 1))
                              /\ Last(events') =
                                    Event("Exit", K, Bytes(c + 1, end - c - 1))
                         ELSE /\ events'[e_opener] = events[e_opener]
                              /\ ~IsExit(Last(events'))
                 IN  Ends(UnescapedCloser(c + 1, CharAt(c),
                                          IF CharAt(c) = "[" THEN "]" ELSE ")"))
      ]_vars

-----------------------------------------------------------------------------
(* Which verbatim is promoted to a raw format.                             *)

\* The step that reads the next token, a verbatim or math opener, gives an
\* Enter(RawFormat).
Promoted == events'[Len(events) + 1] = [events'[Len(events) + 1] EXCEPT
                                           !.kind = "Enter", !.of = "RawFormat"]

\* C31 as stated: only a verbatim opened by a single backtick is promoted
\* to a raw format.
OnlySingleBacktickPromoted ==
    [][(VerbatimOpens /\ Promoted) =>
          (NextToken.kind = "Seq(Backtick)" /\ NextToken.n = 1)
      ]_vars

\* C31: a verbatim is promoted to a raw format exactly when it is opened by
\* a run of backticks of any length, without dollars, and closed by a run of
\* the same length that has "{=", a tag and "}" right behind it.
PromotedIffTagged ==
    [][VerbatimOpens =>
          (Promoted <=>
              /\ NextToken.kind = "Seq(Backtick)"
              /\ RawClose # -1
              /\ RawTagAt(RawClose + NextToken.n))
      ]_vars

\* A verbatim opened and closed by two backticks, with a raw format behind
\* it, is released as a raw format.
PromotedIffTaggedWitness ==
    /\ src = <<Backtick, Backtick, "a", Backtick, Backtick, "{", "=", "a", "}">>
    /\ pc = "done"
    /\ released = <<Event("Enter", "RawFormat", Span_new(7, 8)),
                    Event("Str", "", Span_new(2, 3)),
                    Event("Exit", "RawFormat", Span_new(7, 8))>>

-----------------------------------------------------------------------------
(* Resources.                                                              *)

\* C32 as stated: the events in the buffer and the events released are no
\* more than the tokens taken from the lexer, and neither are the openers
\* on the stack.
OneEventPerToken ==
    /\ Len(events) + Len(released) <= eaten
    /\ Len(openers) <= eaten

\* C32: the events in the buffer and the events released are no more than
\* three for each token taken from the lexer, and the openers on the stack
\* no more than one for each token.
ThreeEventsPerToken ==
    /\ Len(events) + Len(released) <= 3 * eaten
    /\ Len(openers) <= eaten

\* A lone backtick: one token, and the three events Enter, Str and Exit.
ThreeEventsPerTokenWitness ==
    /\ src = <<Backtick>>
    /\ pc = "done"
    /\ eaten = 1
    /\ Len(released) = 3
-----------------------------------------------------------------------------
(* Termination.                                                            *)

\* The loop of next() can take in one more token.
CanParse == pc = "loop" /\ MustParse /\ ~Exhausted

\* The caller goes on calling next() and the loop of next() goes on while
\* its condition holds: a step that can be taken is taken in the end.  The
\* fairness of ParseEvent is written out, with CanParse as the condition
\* under which it can be taken.
FairSpec ==
    /\ Init /\ [][Next]_vars
    /\ WF_vars(PopFront) /\ WF_vars(ReturnNone)
    /\ ([]<>~CanParse \/ []<><<ParseEvent>>_vars)

\* A call of next() has panicked and has returned nothing: at the assertion
\* of the merge, or at an overflow in a build that checks for it.
Panicked == pc \in {"assert_eq", "overflow"}

\* C33: for every input, after finitely many calls next() returns None, and
\* it returns None on every later call.
ReturnsNoneForever == <>[](pc = "done")

\* Every run comes to an end: next() returns None for ever, or a call of
\* next() has panicked.
Halts == <>[](pc = "done" \/ Panicked)

\* Every turn of the loop of next() takes at least one token from the lexer.
EachTurnEats == [][pc = "loop" /\ lexer' # lexer => eaten' > eaten]_vars

\* Every step takes a token from the lexer, or takes none and shortens the
\* buffer, or takes none, leaves the buffer empty and returns None for the
\* first time.
StepsDecrease ==
    [][\/ eaten' > eaten
       \/ eaten' = eaten /\ Len(events') < Len(events)
       \/ eaten' = eaten /\ events' = events /\ pc = "loop" /\ pc' = "done"]_vars

\* No more tokens are taken from the lexer than the input has bytes.
EatenBounded == eaten <= InputLen
-----------------------------------------------------------------------------
(* What is released for text and for a Placeholder.                         *)

Textual(e) == e.kind \in {"Str", "Whitespace", "Placeholder"}

\* The number of events at the front of evs that are Str, Whitespace or
\* Placeholder.
RECURSIVE TextRun(_)
TextRun(evs) ==
    IF evs = <<>> THEN 0
    ELSE IF Textual(Head(evs)) THEN 1 + TextRun(Tail(evs))
    ELSE 0

\* The union of the spans of the first n events of evs: from the least
\* start to the greatest end.
SpanUnion(evs, n) ==
    Span_new(CHOOSE s \in {evs[i].span.start : i \in 1..n} :
                 \A i \in 1..n : s <= evs[i].span.start,
             CHOOSE s \in {evs[i].span.end : i \in 1..n} :
                 \A i \in 1..n : s >= evs[i].span.end)

\* The front of the buffer is taken off: no token is taken from the lexer
\* and the buffer changes.
FrontPopped == eaten' = eaten /\ events' # events

\* C34: no released event has kind Whitespace or Placeholder.  When a Str
\* or a Whitespace is at the front of the buffer and an event is released
\* for it, that event is a Str whose span is the union of the spans of all
\* the Str, Whitespace and Placeholder events at the front, and these leave
\* the buffer.  When a Placeholder is at the front, it leaves the buffer,
\* nothing is released for it and next() goes on.
NoWhitespaceOrPlaceholderReleased ==
    [][/\ \A i \in 1..Len(released') :
              released'[i].kind \notin {"Whitespace", "Placeholder"}
       /\ FrontPopped =>
              LET e == Head(events)
                  n == TextRun(events)
              IN  /\ IsText(e) /\ released' # released =>
                         /\ released' =
                                Append(released,
                                       Event("Str", "", SpanUnion(events, n)))
                         /\ events' = SubSeq(events, n + 1, Len(events))
                  /\ e.kind = "Placeholder" =>
                         /\ released' = released
                         /\ events' = Tail(events)
                         /\ pc' = "loop"]_vars

\* `a{}{} `: the Placeholder of the first `{}` is taken into the Str of
\* `a`, the Placeholder of the second is at the front of the buffer and is
\* skipped, and next() returns the Str of the blank after it.
NoWhitespaceOrPlaceholderReleasedWitness ==
    /\ src = <<"a", "{", "}", "{", "}", " ">>
    /\ pc = "done"
    /\ released = <<Event("Str", "", Span_new(0, 1)),
                    Event("Str", "", Span_new(5, 6))>>

====
